---- MODULE Spec2Model ----
(***************************************************************************)
(* Model of the edge-storage SDK module                                    *)
(* (src/packages/sdk/src/edge-storage/index.ts): the ten storage           *)
(* operations that call fetch directly and reject on failure, and the five *)
(* database operations that go through fetchWithErrorHandling and return a *)
(* normalized {state, data} / {error} result.                              *)
(*                                                                         *)
(* One call is modelled from its invocation to its completion.  An async   *)
(* function has one suspension point, the awaited transport call, so each  *)
(* operation is two steps: the part before the await (build and issue the  *)
(* request) and the part after it (normalize the reply).  A caller that    *)
(* got a bucket handle from getBucketByName may go on to call the handle's *)
(* operations, each of which is a call of its own.                         *)
(***************************************************************************)
EXTENDS Integers, Sequences, FiniteSets, TLC

VARIABLES
    pc,        \* "idle" | "awaiting" | "settled" | "done"
    call,      \* the operation invoked and its arguments
    requests,  \* the transport requests issued by this call, in order
    reply,     \* what the transport delivered for the request
    outcome,   \* the completion of the call: a returned value or a raised one
    logged,    \* what the call passed to console.log / console.error
    handle     \* the bucket handle the caller got from getBucketByName, if any

vars == <<pc, call, requests, reply, outcome, logged, handle>>

(***************************************************************************)
(* JavaScript values.                                                      *)
(***************************************************************************)
Undefined == [t |-> "undefined"]
Null == [t |-> "null"]
Str(s) == [t |-> "string", v |-> s]
Num(n) == [t |-> "number", v |-> n]
Bool(b) == [t |-> "boolean", v |-> b]
Arr(q) == [t |-> "array", v |-> q]
Obj(f) == [t |-> "object", v |-> f]
Err(name, message) == [t |-> "error", name |-> name, message |-> message]

NoFields == [k \in {} |-> Undefined]
Field(k, S) == {NoFields} \cup {k :> v : v \in S}

\* A completion of a function or of a promise: a value returned (resolved) or
\* a value thrown (rejected).
Return(v) == [kind |-> "return", value |-> v]
Throw(e) == [kind |-> "throw", value |-> e]
Pending == [kind |-> "pending"]

Nullish(v) == v.t \in {"undefined", "null"}

\* ToBoolean
Truthy(v) ==
    CASE v.t = "undefined" -> FALSE
      [] v.t = "null" -> FALSE
      [] v.t = "string" -> v.v # ""
      [] v.t = "number" -> v.v # 0
      [] v.t = "boolean" -> v.v
      [] OTHER -> TRUE

IsArray(v) == v.t = "array"

\* v[k] for a named property of a value that is not null or undefined
Get(v, k) == IF v.t = "object" /\ k \in DOMAIN v.v THEN v.v[k] ELSE Undefined

\* v[i] for an array and a zero-based index
At(v, i) == IF v.t = "array" /\ i + 1 \in DOMAIN v.v THEN v.v[i + 1] ELSE Undefined

\* v.k = ... succeeds on objects and arrays; a module is strict code, where
\* creating a property on a primitive raises a TypeError
Assignable(v) == v.t \in {"object", "array"}

TypeError(message) == Err("TypeError", message)

\* Error.prototype.toString
ErrorToString(e) == IF e.message = "" THEN e.name ELSE e.name \o ": " \o e.message

RECURSIVE ToStr(_)
RECURSIVE JoinFrom(_, _, _)
\* Array.prototype.join: null and undefined elements give the empty string
JoinFrom(q, i, sep) ==
    IF i > Len(q) THEN ""
    ELSE (IF i > 1 THEN sep ELSE "")
         \o (IF Nullish(q[i]) THEN "" ELSE ToStr(q[i]))
         \o JoinFrom(q, i + 1, sep)

\* ToString
ToStr(v) ==
    CASE v.t = "undefined" -> "undefined"
      [] v.t = "null" -> "null"
      [] v.t = "string" -> v.v
      [] v.t = "number" -> ToString(v.v)
      [] v.t = "boolean" -> (IF v.v THEN "true" ELSE "false")
      [] v.t = "array" -> JoinFrom(v.v, 1, ",")
      [] v.t = "error" -> ErrorToString(v)
      [] OTHER -> "[object Object]"

Join(a, sep) == JoinFrom(a.v, 1, sep)

\* a ?? b
Coalesce(a, b) == IF Nullish(a) THEN b ELSE a


\* The text JSON.stringify gives for v, kept as the value it was made from:
\* the serialization of whole payloads is only ever logged, never inspected,
\* so the model keeps a string that stands for "the JSON text of v".
Stringified(v) == [t |-> "string", v |-> "json", of |-> v]

\* JSON.stringify of a string (the model's names and statements hold no
\* character that needs escaping)
Quoted(s) == "\"" \o s \o "\""

RECURSIVE QuotedListFrom(_, _)
QuotedListFrom(q, i) ==
    IF i > Len(q) THEN ""
    ELSE (IF i > 1 THEN "," ELSE "") \o Quoted(q[i]) \o QuotedListFrom(q, i + 1)

\* { ...v } : the own enumerable properties of v
Spread(v) ==
    CASE v.t = "object" -> v.v
      [] v.t = "array" -> [k \in {ToString(i - 1) : i \in DOMAIN v.v} |->
                              v.v[(CHOOSE i \in DOMAIN v.v : ToString(i - 1) = k)]]
      [] OTHER -> NoFields

(***************************************************************************)
(* Utilities imported from ../../utils.                                    *)
(***************************************************************************)
LogLimit == 10

\* limitArraySize(array, limit): at most the first `limit` entries
limitArraySize(array, limit) ==
    IF IsArray(array) /\ Len(array.v) > limit
    THEN Arr(SubSeq(array.v, 1, limit))
    ELSE array

\* fetchWithErrorHandling(url, options, debug): issues the request and gives
\* the parsed payload; a transport failure or an unparsable body is raised
fetchWithErrorHandling(rep) ==
    IF rep.kind = "reject" THEN Throw(rep.error) ELSE rep.json

(***************************************************************************)
(* Request building.                                                       *)
(***************************************************************************)
BASE_URL == "https://api.azion.com/v4/storage/buckets"

getBaseUrl(env) ==
    LET e == IF env.t = "undefined" THEN "production" ELSE env.v
    IN CASE e = "production" -> "https://api.azion.com/v4/storage/buckets"
         [] e = "development" -> "/v4/storage/buckets"
         [] e = "staging" -> "https://stage-api.azion.com/v4/storage/buckets"

StartsWith(s, prefix) == Len(s) >= Len(prefix) /\ SubSeq(s, 1, Len(prefix)) = prefix

\* new URL(s), with no base, parses s only when it begins with a scheme and
\* raises a TypeError otherwise
IsAbsoluteUrl(s) == StartsWith(s, "https://") \/ StartsWith(s, "http://")

\* the same with the standard bearer scheme in place of the platform's
buildHeadersBearer(token, additionalHeaders) ==
    LET baseHeaders == additionalHeaders @@ ("Accept" :> "application/json")
    IN IF Truthy(token)
       THEN ("Authorization" :> ("Bearer " \o ToStr(token))) @@ baseHeaders
       ELSE baseHeaders

buildHeaders(token, additionalHeaders) ==
    LET baseHeaders == additionalHeaders @@ ("Accept" :> "application/json")
    IN IF Truthy(token)
       THEN ("Authorization" :> ("Token " \o ToStr(token))) @@ baseHeaders
       ELSE baseHeaders

buildFetchOptions(method, headers, body) ==
    LET options == ("method" :> method) @@ ("headers" :> headers)
                   @@ ("credentials" :> "include")
    IN IF Truthy(body) THEN ("body" :> body.v) @@ options ELSE options

Request(url, options) == [url |-> url, options |-> options]

(***************************************************************************)
(* Error mapping.                                                          *)
(***************************************************************************)
RECURSIVE handleApiErrorFrom(_, _, _, _, _)
handleApiErrorFrom(fields, i, data, operation, error) ==
    IF i > Len(fields) THEN error
    ELSE LET v == Get(data, fields[i])
             message == IF IsArray(v) THEN Str(Join(v, ", ")) ELSE v
         IN handleApiErrorFrom(fields, i + 1, data, operation,
                IF Truthy(v)
                THEN Obj([message |-> message, operation |-> Str(operation)])
                ELSE error)

handleApiError(fields, data, operation) ==
    handleApiErrorFrom(fields, 1, data, operation,
        Obj([message |-> Str("Error unknown"), operation |-> Str(operation)]))

\* catch (error) { return { error: { message: error.toString(), operation } } }
ErrorResult(error, operation) ==
    Return(Obj([error |-> Obj([message |-> Str(ToStr(error)),
                               operation |-> Str(operation)])]))

\* the branch taken when the success field is missing:
\*   result.error = handleApiError(['detail'], result, operation);
\*   return { error: result.error ?? JSON.stringify(result) };
MissingField(result, operation) ==
    IF ~Assignable(result)
    THEN Throw(TypeError("Cannot create property 'error'"))
    ELSE Return(Obj([error |-> Coalesce(handleApiError(<<"detail">>, result, operation),
                                        Stringified(result))]))

\* reading a property of null or undefined
ReadOf(v) == Throw(TypeError("Cannot read properties of " \o ToStr(v)))

\* the camelCase record built from a platform record
Database(d) ==
    Obj([clientId |-> Get(d, "client_id"),
         createdAt |-> Get(d, "created_at"),
         deletedAt |-> Get(d, "deleted_at"),
         id |-> Get(d, "id"),
         isActive |-> Get(d, "is_active"),
         name |-> Get(d, "name"),
         status |-> Get(d, "status"),
         updatedAt |-> Get(d, "updated_at")])


(***************************************************************************)
(* Database operations: the request each one issues, and the completion of *)
(* its try block once the awaited fetchWithErrorHandling has settled.      *)
(* Every one of them catches what the try block raises and returns         *)
(* { error: { message: error.toString(), operation } }.                    *)
(***************************************************************************)
JsonContent == "Content-Type" :> "application/json"

\* --- postEdgeDatabase ---------------------------------------------------
postEdgeDatabaseRequest(c) ==
    Request(getBaseUrl(c.env),
            buildFetchOptions("POST", buildHeaders(c.token, JsonContent),
                              Str("{\"name\":" \o Quoted(c.name.v) \o "}")))

postEdgeDatabaseTry(c, rep) ==
    LET fetched == fetchWithErrorHandling(rep)
        result == fetched.value
    IN IF fetched.kind = "throw" THEN fetched
       ELSE IF Nullish(result) THEN ReadOf(result)
       ELSE IF ~Truthy(Get(result, "state")) THEN MissingField(result, "post database")
       ELSE IF Nullish(Get(result, "data")) THEN ReadOf(Get(result, "data"))
       ELSE Return(Obj([state |-> Get(result, "state"),
                        data |-> Database(Get(result, "data"))]))

\* the operation without its catch block
postEdgeDatabaseNoCatch(c, rep) == postEdgeDatabaseTry(c, rep)

postEdgeDatabaseSettle(c, rep) ==
    LET try == postEdgeDatabaseTry(c, rep)
    IN IF try.kind = "throw" THEN ErrorResult(try.value, "post database") ELSE try

postEdgeDatabaseLog(c, rep) ==
    LET try == postEdgeDatabaseTry(c, rep)
    IN IF ~c.debug THEN <<>>
       ELSE IF try.kind = "throw" THEN << <<"Error creating EdgeDB:", try.value>> >>
       ELSE IF "error" \in DOMAIN try.value.v THEN <<>>
       ELSE << <<"Response Post Database", Stringified(rep.json.value)>> >>

\* --- deleteEdgeDatabase -------------------------------------------------
deleteEdgeDatabaseRequest(c) ==
    Request(getBaseUrl(c.env) \o "/" \o ToStr(c.id),
            buildFetchOptions("DELETE", buildHeaders(c.token, NoFields), Undefined))

deleteEdgeDatabaseTry(c, rep) ==
    LET fetched == fetchWithErrorHandling(rep)
        result == fetched.value
    IN IF fetched.kind = "throw" THEN fetched
       ELSE IF Nullish(result) THEN ReadOf(result)
       ELSE IF ~Truthy(Get(result, "state")) THEN MissingField(result, "delete database")
       ELSE Return(Obj([state |-> Get(result, "state"), data |-> Obj([id |-> c.id])]))

deleteEdgeDatabaseSettle(c, rep) ==
    LET try == deleteEdgeDatabaseTry(c, rep)
    IN IF try.kind = "throw" THEN ErrorResult(try.value, "delete database") ELSE try

deleteEdgeDatabaseLog(c, rep) ==
    LET try == deleteEdgeDatabaseTry(c, rep)
    IN IF c.debug /\ try.kind = "throw"
       THEN << <<"Error deleting EdgeDB:", try.value>> >>
       ELSE <<>>

\* --- postQueryEdgeDatabase ----------------------------------------------
postQueryEdgeDatabaseRequest(c) ==
    Request(getBaseUrl(c.env) \o "/" \o ToStr(c.id) \o "/query",
            buildFetchOptions("POST", buildHeaders(c.token, JsonContent),
                Str("{\"statements\":[" \o QuotedListFrom(c.statements, 1) \o "]}")))

\* data.results.rows is read for every element of the array: the debug
\* branch raises when an element, or its `results`, is null or undefined
LimitedRowsThrow(data) ==
    \E i \in DOMAIN data.v : Nullish(data.v[i]) \/ Nullish(Get(data.v[i], "results"))

LimitedRows(result) ==
    Obj(("data" :> Arr([i \in DOMAIN Get(result, "data").v |->
            LET data == Get(result, "data").v[i]
            IN Obj(("results" :>
                       Obj(("rows" :> limitArraySize(Get(Get(data, "results"), "rows"),
                                                     LogLimit))
                           @@ Spread(Get(data, "results"))))
                   @@ Spread(data))]))
        @@ Spread(result))

\* if (result.data[0].error) return { error: { message, operation } }
FirstStatementError(first) ==
    Return(Obj([error |-> Obj([message |-> Get(first, "error"),
                               operation |-> Str("post query")])]))

\* the same try block with the debug block moved ahead of the check of the
\* first statement
postQueryEdgeDatabaseLogsFirst(c, rep) ==
    LET fetched == fetchWithErrorHandling(rep)
        result == fetched.value
        data == Get(result, "data")
        first == At(data, 0)
    IN IF fetched.kind = "throw" THEN fetched
       ELSE IF Nullish(result) THEN ReadOf(result)
       ELSE IF ~Truthy(data) \/ ~IsArray(data) THEN MissingField(result, "post query")
       ELSE IF c.debug /\ LimitedRowsThrow(data) THEN ReadOf(Undefined)
       ELSE IF Nullish(first) THEN ReadOf(first)
       ELSE IF Truthy(Get(first, "error")) THEN FirstStatementError(first)
       ELSE Return(Obj([state |-> Get(result, "state"), data |-> data]))

postQueryEdgeDatabaseTry(c, rep) ==
    LET fetched == fetchWithErrorHandling(rep)
        result == fetched.value
        data == Get(result, "data")
        first == At(data, 0)
    IN IF fetched.kind = "throw" THEN fetched
       ELSE IF Nullish(result) THEN ReadOf(result)
       ELSE IF ~Truthy(data) \/ ~IsArray(data) THEN MissingField(result, "post query")
       ELSE IF Nullish(first) THEN ReadOf(first)
       ELSE IF Truthy(Get(first, "error")) THEN FirstStatementError(first)
       ELSE IF c.debug /\ LimitedRowsThrow(data)
            THEN ReadOf(Undefined)
       ELSE Return(Obj([state |-> Get(result, "state"), data |-> data]))

postQueryEdgeDatabaseSettle(c, rep) ==
    LET try == postQueryEdgeDatabaseTry(c, rep)
    IN IF try.kind = "throw" THEN ErrorResult(try.value, "post query") ELSE try

postQueryEdgeDatabaseLog(c, rep) ==
    LET try == postQueryEdgeDatabaseTry(c, rep)
    IN IF ~c.debug THEN <<>>
       ELSE IF try.kind = "throw" THEN << <<"Error querying EdgeDB:", try.value>> >>
       ELSE IF "error" \in DOMAIN try.value.v THEN <<>>
       ELSE << <<"Response Query:", Stringified(LimitedRows(rep.json.value))>> >>

\* --- getEdgeDatabaseById ------------------------------------------------
getEdgeDatabaseByIdRequest(c) ==
    Request(getBaseUrl(c.env) \o "/" \o ToStr(c.id),
            ("method" :> "GET")
            @@ ("headers" :> ("Authorization" :> ("Token " \o ToStr(c.token)))))

getEdgeDatabaseByIdTry(c, rep) ==
    LET fetched == fetchWithErrorHandling(rep)
        result == fetched.value
    IN IF fetched.kind = "throw" THEN fetched
       ELSE IF Nullish(result) THEN ReadOf(result)
       ELSE IF ~Truthy(Get(result, "data")) THEN MissingField(result, "get database")
       ELSE Return(result)

getEdgeDatabaseByIdSettle(c, rep) ==
    LET try == getEdgeDatabaseByIdTry(c, rep)
    IN IF try.kind = "throw" THEN ErrorResult(try.value, "get database") ELSE try

getEdgeDatabaseByIdLog(c, rep) ==
    LET try == getEdgeDatabaseByIdTry(c, rep)
    IN IF ~c.debug THEN <<>>
       ELSE IF try.kind = "throw" THEN << <<"Error getting EdgeDB:", try.value>> >>
       ELSE IF Truthy(Get(rep.json.value, "data")) THEN << <<"Response:", rep.json.value>> >>
       ELSE <<>>

\* --- getEdgeDatabases ---------------------------------------------------
\* Object.entries(params).forEach: every entry whose value is not undefined
\* is appended to the query, in the object's own order
RECURSIVE SearchParamsFrom(_, _, _)
SearchParamsFrom(params, i, first) ==
    IF i > Len(params.order) THEN ""
    ELSE LET key == params.order[i]
             value == params.v[key]
         IN IF value.t = "undefined" THEN SearchParamsFrom(params, i + 1, first)
            ELSE (IF first THEN "?" ELSE "&") \o key \o "=" \o ToStr(value)
                 \o SearchParamsFrom(params, i + 1, FALSE)

getEdgeDatabasesUrl(c) ==
    getBaseUrl(c.env)
    \o (IF Truthy(c.params) THEN SearchParamsFrom(c.params, 1, TRUE) ELSE "")

\* new URL(getBaseUrl(env)) raises inside the try block, before any request
getEdgeDatabasesUrlThrows(c) == ~IsAbsoluteUrl(getBaseUrl(c.env))

InvalidUrl == TypeError("Invalid URL")

getEdgeDatabasesRequest(c) ==
    Request(getEdgeDatabasesUrl(c),
            ("method" :> "GET")
            @@ ("headers" :> ("Authorization" :> ("Token " \o ToStr(c.token)))))

getEdgeDatabasesTry(c, rep) ==
    LET fetched == fetchWithErrorHandling(rep)
        data == fetched.value
        results == Get(data, "results")
    IN IF fetched.kind = "throw" THEN fetched
       ELSE IF Nullish(data) THEN ReadOf(data)
       ELSE IF ~Truthy(results) THEN MissingField(data, "get databases")
       ELSE IF ~IsArray(results) THEN Throw(TypeError("data.results.map is not a function"))
       ELSE IF \E i \in DOMAIN results.v : Nullish(results.v[i]) THEN ReadOf(Null)
       ELSE Return(Obj([links |-> Get(data, "links"),
                        count |-> Get(data, "count"),
                        results |-> Arr([i \in DOMAIN results.v |->
                                            Database(results.v[i])])]))

getEdgeDatabasesSettle(c, rep) ==
    LET try == getEdgeDatabasesTry(c, rep)
    IN IF try.kind = "throw" THEN ErrorResult(try.value, "get databases") ELSE try

getEdgeDatabasesLog(c, rep) ==
    LET try == getEdgeDatabasesTry(c, rep)
        data == rep.json.value
        limited == << <<"Response Databases:",
                        Stringified(Obj(("results" :> limitArraySize(Get(data, "results"),
                                                                     LogLimit))
                                        @@ Spread(data)))>> >>
    IN IF ~c.debug THEN <<>>
       ELSE IF rep.kind = "reject" \/ rep.json.kind = "throw" \/ Nullish(data)
            THEN << <<"Error getting all EdgeDBs:", try.value>> >>
       ELSE IF ~Truthy(Get(data, "results")) THEN
            (IF try.kind = "throw"
             THEN << <<"Error getting all EdgeDBs:", try.value>> >> ELSE <<>>)
       ELSE IF try.kind = "throw"
            THEN limited \o << <<"Error getting all EdgeDBs:", try.value>> >>
       ELSE limited


(***************************************************************************)
(* Storage operations: each calls fetch itself, reads the body, and lets   *)
(* whatever is raised propagate after logging it.                          *)
(***************************************************************************)
StorageHeaders(token) ==
    ("Accept" :> "application/json") @@ ("Authorization" :> ("Token " \o ToStr(token)))

JsonHeaders(token) == JsonContent @@ StorageHeaders(token)

OctetHeaders(token) ==
    ("Content-Type" :> "application/octet-stream") @@ StorageHeaders(token)

\* the same with a catch block that logs and does not rethrow
JsonFieldSwallowed(rep, field) ==
    IF rep.kind = "reject" THEN Return(Undefined)
    ELSE IF rep.json.kind = "throw" THEN rep.json
    ELSE IF Nullish(rep.json.value) THEN ReadOf(rep.json.value)
    ELSE Return(Get(rep.json.value, field))

\* const data = await response.json(); ... return data[field];
\* catch (error) { ...; throw error; }
JsonField(rep, field) ==
    IF rep.kind = "reject" THEN Throw(rep.error)
    ELSE IF rep.json.kind = "throw" THEN rep.json
    ELSE IF Nullish(rep.json.value) THEN ReadOf(rep.json.value)
    ELSE Return(Get(rep.json.value, field))

\* if (debug) console.log('Response:', data); ... catch: console.error(label, error)
JsonLog(debug, rep, settled, label) ==
    IF ~debug THEN <<>>
    ELSE (IF rep.kind = "response" /\ rep.json.kind = "return"
          THEN << <<"Response:", rep.json.value>> >> ELSE <<>>)
         \o (IF settled.kind = "throw" THEN << <<label, settled.value>> >> ELSE <<>>)

\* --- getAllBuckets ------------------------------------------------------
DefaultSize == 10
DefaultPage == 1

\* the same without the defaults: const { size, page } = options || {}
DestructuredNoDefault(options, key, default) ==
    Get(IF Truthy(options) THEN options ELSE Obj(NoFields), key)

\* const { size = 10, page = 1 } = options || {}
Destructured(options, key, default) ==
    LET o == IF Truthy(options) THEN options ELSE Obj(NoFields)
    IN IF Get(o, key).t = "undefined" THEN Num(default) ELSE Get(o, key)

getAllBucketsRequest(c) ==
    Request(BASE_URL \o "?page_size=" \o ToStr(Destructured(c.options, "size", DefaultSize))
                     \o "&page=" \o ToStr(Destructured(c.options, "page", DefaultPage)),
            ("method" :> "GET")
            @@ ("headers" :> (("Accept" :> "application/json; version=3")
                              @@ StorageHeaders(c.token))))

getAllBucketsSettle(c, rep) == JsonField(rep, "results")
getAllBucketsLog(c, rep) ==
    JsonLog(c.debug, rep, getAllBucketsSettle(c, rep), "Error getting all buckets:")

\* --- createBucket -------------------------------------------------------
createBucketRequest(c) ==
    Request(BASE_URL,
            ("method" :> "POST") @@ ("headers" :> JsonHeaders(c.token))
            @@ ("body" :> ("{\"name\":" \o Quoted(c.name.v) \o ",\"edge_access\":"
                           \o Quoted(c.edge_access.v) \o "}")))

createBucketSettle(c, rep) == JsonField(rep, "data")
createBucketLog(c, rep) ==
    JsonLog(c.debug, rep, createBucketSettle(c, rep), "Error creating bucket:")

\* --- patchBucket --------------------------------------------------------
patchBucketRequest(c) ==
    Request(BASE_URL \o "/" \o ToStr(c.name),
            ("method" :> "PATCH") @@ ("headers" :> JsonHeaders(c.token))
            @@ ("body" :> ("{\"edge_access\":" \o Quoted(c.edge_access.v) \o "}")))

patchBucketSettle(c, rep) == JsonField(rep, "data")
patchBucketLog(c, rep) ==
    JsonLog(c.debug, rep, patchBucketSettle(c, rep), "Error updating bucket:")

\* --- deleteBucket -------------------------------------------------------
deleteBucketRequest(c) ==
    Request(BASE_URL \o "/" \o ToStr(c.name),
            ("method" :> "DELETE") @@ ("headers" :> StorageHeaders(c.token)))

\* the same with the body read as the other operations read it
deleteBucketReadsBody(c, rep) ==
    IF rep.kind = "reject" THEN Throw(rep.error)
    ELSE IF rep.json.kind = "throw" THEN rep.json
    ELSE Return(Undefined)

\* the response is only logged: neither its status nor its body is read
deleteBucketSettle(c, rep) ==
    IF rep.kind = "reject" THEN Throw(rep.error) ELSE Return(Undefined)

deleteBucketLog(c, rep) ==
    IF ~c.debug THEN <<>>
    ELSE IF rep.kind = "reject" THEN << <<"Error deleting bucket:", rep.error>> >>
    ELSE << <<"Response:", rep>> >>

\* --- getBucketByName ----------------------------------------------------
\* the same closing over token and name only, the flag not passed on
BoundWithoutDebug(op, c) == [t |-> "function", op |-> op, token |-> c.token,
                             bucketName |-> c.name, debug |-> FALSE]

\* an arrow function closing over token, name and debug
Bound(op, c) == [t |-> "function", op |-> op, token |-> c.token,
                 bucketName |-> c.name, debug |-> c.debug]

getBucketByNameRequest(c) ==
    Request(BASE_URL \o "/" \o ToStr(c.name),
            ("method" :> "GET") @@ ("headers" :> StorageHeaders(c.token)))

getBucketByNameSettle(c, rep) ==
    LET data == JsonField(rep, "data")
    IN IF data.kind = "throw" THEN data
       ELSE Return(Obj([listObjects |-> Bound("getAllObjects", c),
                        uploadObject |-> Bound("postObject", c),
                        getObject |-> Bound("getObjectByName", c),
                        updateObject |-> Bound("putObject", c),
                        deleteObject |-> Bound("deleteObject", c)]
                       @@ Spread(data.value)))

getBucketByNameLog(c, rep) ==
    JsonLog(c.debug, rep, getBucketByNameSettle(c, rep), "Error getting bucket by name:")

\* --- getAllObjects ------------------------------------------------------
getAllObjectsRequest(c) ==
    Request(BASE_URL \o "/" \o ToStr(c.bucketName) \o "/objects",
            ("method" :> "GET") @@ ("headers" :> StorageHeaders(c.token)))

getAllObjectsSettle(c, rep) == JsonField(rep, "results")
getAllObjectsLog(c, rep) ==
    JsonLog(c.debug, rep, getAllObjectsSettle(c, rep), "Error getting all objects:")

\* --- postObject ---------------------------------------------------------
ObjectUrl(c) == BASE_URL \o "/" \o ToStr(c.bucketName) \o "/objects/" \o ToStr(c.objectKey)

postObjectRequest(c) ==
    Request(ObjectUrl(c),
            ("method" :> "POST") @@ ("headers" :> OctetHeaders(c.token))
            @@ ("body" :> c.file.v))

postObjectSettle(c, rep) == JsonField(rep, "data")
postObjectLog(c, rep) ==
    JsonLog(c.debug, rep, postObjectSettle(c, rep), "Error posting object:")

\* --- getObjectByName ----------------------------------------------------
getObjectByNameRequest(c) ==
    Request(ObjectUrl(c),
            ("method" :> "GET") @@ ("headers" :> StorageHeaders(c.token)))

\* const data = await response.text(); return { key: objectKey, content: data }
getObjectByNameSettle(c, rep) ==
    IF rep.kind = "reject" THEN Throw(rep.error)
    ELSE IF rep.text.kind = "throw" THEN rep.text
    ELSE Return(Obj([key |-> c.objectKey, content |-> rep.text.value]))

getObjectByNameLog(c, rep) ==
    IF ~c.debug THEN <<>>
    ELSE IF rep.kind = "reject" THEN << <<"Error getting object by name:", rep.error>> >>
    ELSE IF rep.text.kind = "throw"
         THEN << <<"Error getting object by name:", rep.text.value>> >>
    ELSE << <<"Response:", rep.text.value>> >>

\* --- putObject ----------------------------------------------------------
putObjectRequest(c) ==
    Request(ObjectUrl(c),
            ("method" :> "PUT") @@ ("headers" :> OctetHeaders(c.token))
            @@ ("body" :> c.file.v))

putObjectSettle(c, rep) == JsonField(rep, "data")
putObjectLog(c, rep) ==
    JsonLog(c.debug, rep, putObjectSettle(c, rep), "Error putting object:")

\* --- deleteObject -------------------------------------------------------
deleteObjectRequest(c) ==
    Request(ObjectUrl(c),
            ("method" :> "DELETE") @@ ("headers" :> StorageHeaders(c.token)))

deleteObjectSettle(c, rep) ==
    IF rep.kind = "reject" THEN Throw(rep.error) ELSE Return(Undefined)

deleteObjectLog(c, rep) ==
    IF ~c.debug THEN <<>>
    ELSE IF rep.kind = "reject" THEN << <<"Error deleting object:", rep.error>> >>
    ELSE << <<"Response:", rep>> >>


(***************************************************************************)
(* The inputs of the model: the arguments a caller may pass and the        *)
(* replies the transport may deliver.                                      *)
(***************************************************************************)
MaxId == 2
MaxPage == 2
MaxStatements == 2

Tokens == {Str(""), Str("s3cr3t")}
BucketNames == {Str("assets")}
EdgeAccess == {Str("read_only")}
ObjectKeys == {Str("logo")}
Files == {Str("bytes")}
DatabaseNames == {Str("orders")}
Ids == {Num(i) : i \in 1..MaxId}
Pages == {Num(i) : i \in 1..MaxPage}
Environments == {Undefined, Str("production"), Str("development"), Str("staging")}
StatementLists == {[i \in 1..n |-> "select " \o ToString(i)] : n \in 1..MaxStatements}

\* BucketCollectionOptions, or none
BucketOptions ==
    {Undefined} \cup {Obj(size @@ page) : size \in Field("size", Pages \cup {Num(25)}),
                                          page \in Field("page", Pages)}

\* an object literal with its properties in the order they were written
Literal(order, f) == [t |-> "object", v |-> f, order |-> order]

\* Partial<AzionDatabaseCollectionOptions>, or none
DatabaseParams ==
    {Undefined, Literal(<<>>, NoFields)}
    \cup {Literal(<<"page">>, "page" :> p) : p \in Pages \cup {Undefined}}
    \cup {Literal(<<"page_size", "page">>, ("page_size" :> Num(25)) @@ ("page" :> p)) :
             p \in Pages}
    \cup {Literal(<<"search", "page_size">>,
                  ("search" :> Str("orders")) @@ ("page_size" :> Undefined))}

\* platform records
FullRecord ==
    Obj([client_id |-> Str("c1"), created_at |-> Str("t0"), deleted_at |-> Null,
         id |-> Num(1), is_active |-> Bool(TRUE), name |-> Str("orders"),
         status |-> Str("created"), updated_at |-> Str("t1")])
ExtraRecord == Obj(("region" :> Str("eu")) @@ FullRecord.v)
PartialRecord == Obj([id |-> Num(2), name |-> Str("tmp")])
Records == {FullRecord, ExtraRecord, PartialRecord}

\* statement results of a query execution
Rows(n) == Arr([i \in 1..n |-> Arr(<<Num(i)>>)])
ResultSet(n) == Obj([results |-> Obj([columns |-> Arr(<<Str("id")>>), rows |-> Rows(n)])])
StatementResults ==
    {ResultSet(0), ResultSet(LogLimit + 1),
     Obj([error |-> Str("syntax error")]),
     Obj([error |-> Str("")]),
     Obj(NoFields),
     Null}

Details == {Str(""), Str("Not found"), Arr(<<>>), Arr(<<Str("a"), Str("b")>>)}

SeqsUpTo(S, n) == UNION {[1..k -> S] : k \in 0..n}

EntityPayloads ==
    {Obj(state @@ data @@ detail @@ error) :
        state \in Field("state", {Str("executed")}),
        data \in Field("data", Records \cup {Null, Str("")}),
        detail \in Field("detail", Details),
        error \in Field("error", {Str("boom")})}

QueryPayloads ==
    {Obj(state @@ data @@ detail) :
        state \in Field("state", {Str("executed")}),
        data \in {"data" :> Arr(q) : q \in SeqsUpTo(StatementResults, MaxStatements)},
        detail \in Field("detail", {Str("Not found")})}

ListPayloads ==
    {Obj(results @@ paging @@ detail) :
        results \in Field("results",
                          {Arr(q) : q \in SeqsUpTo(Records, 1)}
                          \cup {Arr(<<FullRecord, PartialRecord>>),
                                Arr([i \in 1..(LogLimit + 1) |-> PartialRecord]),
                                Arr(<<Null>>), Str("none"), Obj(NoFields)}),
        paging \in {NoFields, ("count" :> Num(1)) @@ ("links" :> Obj(NoFields))},
        detail \in Field("detail", Details)}

Payloads ==
    EntityPayloads \cup QueryPayloads \cup ListPayloads
    \cup {Null, Str("oops"), Num(0), Bool(TRUE), Arr(<<>>)}

NetworkError == TypeError("fetch failed")
ParseError == Err("SyntaxError", "Unexpected token < in JSON")

\* what an awaited transport call settles to: a rejection, or a response
\* whose body parses to a payload, or a response whose body is no JSON
Rejected(e) == [kind |-> "reject", error |-> e]
Response(status, text, json) ==
    [kind |-> "response", status |-> status, text |-> text, json |-> json]

Replies ==
    {Rejected(NetworkError)}
    \cup {Response(200, Return(Stringified(p)), Return(p)) : p \in Payloads}
    \cup {Response(404, Return(Stringified(p)), Return(p)) :
             p \in {Obj("detail" :> d) : d \in Details}}
    \cup {Response(502, Return(Str("<html>Bad Gateway</html>")), Throw(ParseError)),
          Response(200, Throw(NetworkError), Throw(NetworkError))}

(***************************************************************************)
(* The state machine of one call.                                          *)
(***************************************************************************)
\* const bucket = await getBucketByName(token, name, debug): what the caller
\* holds afterwards, together with the arguments it was obtained with
NoHandle == [held |-> FALSE]
Held(c, value) == [held |-> TRUE, from |-> c, value |-> value]

Init ==
    /\ pc = "idle"
    /\ call = [op |-> "none"]
    /\ requests = <<>>
    /\ reply = Pending
    /\ outcome = Pending
    /\ logged = <<>>
    /\ handle = NoHandle

\* await fetch(url, options) / await fetchWithErrorHandling(url, options, debug):
\* the request goes out once and the operation waits for it to settle
Issued(reqs, req) == Append(reqs, req)

\* Each operation is two actions: <name> runs the call up to its await, and
\* <name>Resumed runs the rest of it with what the transport delivered.

getAllBuckets ==
    /\ pc = "idle"
    /\ \E token \in Tokens, options \in BucketOptions, debug \in BOOLEAN :
          LET c == [op |-> "getAllBuckets", token |-> token, options |-> options, debug |-> debug]
          IN /\ call' = c
             /\ requests' = Issued(requests, getAllBucketsRequest(c))
    /\ pc' = "awaiting"
    /\ UNCHANGED <<reply, outcome, logged, handle>>

getAllBucketsResumed ==
    /\ pc = "awaiting"
    /\ call.op = "getAllBuckets"
    /\ \E rep \in Replies :
          /\ reply' = rep
          /\ outcome' = getAllBucketsSettle(call, rep)
          /\ logged' = getAllBucketsLog(call, rep)
    /\ pc' = "done"
    /\ UNCHANGED <<call, requests, handle>>

createBucket ==
    /\ pc = "idle"
    /\ \E token \in Tokens, name \in BucketNames, edge_access \in EdgeAccess, debug \in BOOLEAN :
          LET c == [op |-> "createBucket", token |-> token, name |-> name, edge_access |-> edge_access, debug |-> debug]
          IN /\ call' = c
             /\ requests' = Issued(requests, createBucketRequest(c))
    /\ pc' = "awaiting"
    /\ UNCHANGED <<reply, outcome, logged, handle>>

createBucketResumed ==
    /\ pc = "awaiting"
    /\ call.op = "createBucket"
    /\ \E rep \in Replies :
          /\ reply' = rep
          /\ outcome' = createBucketSettle(call, rep)
          /\ logged' = createBucketLog(call, rep)
    /\ pc' = "done"
    /\ UNCHANGED <<call, requests, handle>>

patchBucket ==
    /\ pc = "idle"
    /\ \E token \in Tokens, name \in BucketNames, edge_access \in EdgeAccess, debug \in BOOLEAN :
          LET c == [op |-> "patchBucket", token |-> token, name |-> name, edge_access |-> edge_access, debug |-> debug]
          IN /\ call' = c
             /\ requests' = Issued(requests, patchBucketRequest(c))
    /\ pc' = "awaiting"
    /\ UNCHANGED <<reply, outcome, logged, handle>>

patchBucketResumed ==
    /\ pc = "awaiting"
    /\ call.op = "patchBucket"
    /\ \E rep \in Replies :
          /\ reply' = rep
          /\ outcome' = patchBucketSettle(call, rep)
          /\ logged' = patchBucketLog(call, rep)
    /\ pc' = "done"
    /\ UNCHANGED <<call, requests, handle>>

deleteBucket ==
    /\ pc = "idle"
    /\ \E token \in Tokens, name \in BucketNames, debug \in BOOLEAN :
          LET c == [op |-> "deleteBucket", token |-> token, name |-> name, debug |-> debug]
          IN /\ call' = c
             /\ requests' = Issued(requests, deleteBucketRequest(c))
    /\ pc' = "awaiting"
    /\ UNCHANGED <<reply, outcome, logged, handle>>

deleteBucketResumed ==
    /\ pc = "awaiting"
    /\ call.op = "deleteBucket"
    /\ \E rep \in Replies :
          /\ reply' = rep
          /\ outcome' = deleteBucketSettle(call, rep)
          /\ logged' = deleteBucketLog(call, rep)
    /\ pc' = "done"
    /\ UNCHANGED <<call, requests, handle>>

getBucketByName ==
    /\ pc = "idle"
    /\ \E token \in Tokens, name \in BucketNames, debug \in BOOLEAN :
          LET c == [op |-> "getBucketByName", token |-> token, name |-> name, debug |-> debug]
          IN /\ call' = c
             /\ requests' = Issued(requests, getBucketByNameRequest(c))
    /\ pc' = "awaiting"
    /\ UNCHANGED <<reply, outcome, logged, handle>>

getBucketByNameResumed ==
    /\ pc = "awaiting"
    /\ call.op = "getBucketByName"
    /\ \E rep \in Replies :
          /\ reply' = rep
          /\ outcome' = getBucketByNameSettle(call, rep)
          /\ logged' = getBucketByNameLog(call, rep)
          /\ handle' = IF getBucketByNameSettle(call, rep).kind = "return"
                        THEN Held(call, getBucketByNameSettle(call, rep).value)
                        ELSE NoHandle
    /\ pc' = "done"
    /\ UNCHANGED <<call, requests>>

getAllObjects ==
    /\ pc = "idle"
    /\ \E token \in Tokens, bucketName \in BucketNames, debug \in BOOLEAN :
          LET c == [op |-> "getAllObjects", token |-> token, bucketName |-> bucketName, debug |-> debug]
          IN /\ call' = c
             /\ requests' = Issued(requests, getAllObjectsRequest(c))
    /\ pc' = "awaiting"
    /\ UNCHANGED <<reply, outcome, logged, handle>>

getAllObjectsResumed ==
    /\ pc = "awaiting"
    /\ call.op = "getAllObjects"
    /\ \E rep \in Replies :
          /\ reply' = rep
          /\ outcome' = getAllObjectsSettle(call, rep)
          /\ logged' = getAllObjectsLog(call, rep)
    /\ pc' = "done"
    /\ UNCHANGED <<call, requests, handle>>

postObject ==
    /\ pc = "idle"
    /\ \E token \in Tokens, bucketName \in BucketNames, objectKey \in ObjectKeys,
          file \in Files, debug \in BOOLEAN :
          LET c == [op |-> "postObject", token |-> token, bucketName |-> bucketName, objectKey |-> objectKey, file |-> file, debug |-> debug]
          IN /\ call' = c
             /\ requests' = Issued(requests, postObjectRequest(c))
    /\ pc' = "awaiting"
    /\ UNCHANGED <<reply, outcome, logged, handle>>

postObjectResumed ==
    /\ pc = "awaiting"
    /\ call.op = "postObject"
    /\ \E rep \in Replies :
          /\ reply' = rep
          /\ outcome' = postObjectSettle(call, rep)
          /\ logged' = postObjectLog(call, rep)
    /\ pc' = "done"
    /\ UNCHANGED <<call, requests, handle>>

getObjectByName ==
    /\ pc = "idle"
    /\ \E token \in Tokens, bucketName \in BucketNames, objectKey \in ObjectKeys, debug \in BOOLEAN :
          LET c == [op |-> "getObjectByName", token |-> token, bucketName |-> bucketName, objectKey |-> objectKey, debug |-> debug]
          IN /\ call' = c
             /\ requests' = Issued(requests, getObjectByNameRequest(c))
    /\ pc' = "awaiting"
    /\ UNCHANGED <<reply, outcome, logged, handle>>

getObjectByNameResumed ==
    /\ pc = "awaiting"
    /\ call.op = "getObjectByName"
    /\ \E rep \in Replies :
          /\ reply' = rep
          /\ outcome' = getObjectByNameSettle(call, rep)
          /\ logged' = getObjectByNameLog(call, rep)
    /\ pc' = "done"
    /\ UNCHANGED <<call, requests, handle>>

putObject ==
    /\ pc = "idle"
    /\ \E token \in Tokens, bucketName \in BucketNames, objectKey \in ObjectKeys,
          file \in Files, debug \in BOOLEAN :
          LET c == [op |-> "putObject", token |-> token, bucketName |-> bucketName, objectKey |-> objectKey, file |-> file, debug |-> debug]
          IN /\ call' = c
             /\ requests' = Issued(requests, putObjectRequest(c))
    /\ pc' = "awaiting"
    /\ UNCHANGED <<reply, outcome, logged, handle>>

putObjectResumed ==
    /\ pc = "awaiting"
    /\ call.op = "putObject"
    /\ \E rep \in Replies :
          /\ reply' = rep
          /\ outcome' = putObjectSettle(call, rep)
          /\ logged' = putObjectLog(call, rep)
    /\ pc' = "done"
    /\ UNCHANGED <<call, requests, handle>>

deleteObject ==
    /\ pc = "idle"
    /\ \E token \in Tokens, bucketName \in BucketNames, objectKey \in ObjectKeys, debug \in BOOLEAN :
          LET c == [op |-> "deleteObject", token |-> token, bucketName |-> bucketName, objectKey |-> objectKey, debug |-> debug]
          IN /\ call' = c
             /\ requests' = Issued(requests, deleteObjectRequest(c))
    /\ pc' = "awaiting"
    /\ UNCHANGED <<reply, outcome, logged, handle>>

deleteObjectResumed ==
    /\ pc = "awaiting"
    /\ call.op = "deleteObject"
    /\ \E rep \in Replies :
          /\ reply' = rep
          /\ outcome' = deleteObjectSettle(call, rep)
          /\ logged' = deleteObjectLog(call, rep)
    /\ pc' = "done"
    /\ UNCHANGED <<call, requests, handle>>

postEdgeDatabase ==
    /\ pc = "idle"
    /\ \E token \in Tokens, name \in DatabaseNames, debug \in BOOLEAN, env \in Environments :
          LET c == [op |-> "postEdgeDatabase", token |-> token, name |-> name, debug |-> debug, env |-> env]
          IN /\ call' = c
             /\ requests' = Issued(requests, postEdgeDatabaseRequest(c))
    /\ pc' = "awaiting"
    /\ UNCHANGED <<reply, outcome, logged, handle>>

postEdgeDatabaseResumed ==
    /\ pc = "awaiting"
    /\ call.op = "postEdgeDatabase"
    /\ \E rep \in Replies :
          /\ reply' = rep
          /\ outcome' = postEdgeDatabaseSettle(call, rep)
          /\ logged' = postEdgeDatabaseLog(call, rep)
    /\ pc' = "done"
    /\ UNCHANGED <<call, requests, handle>>

deleteEdgeDatabase ==
    /\ pc = "idle"
    /\ \E token \in Tokens, id \in Ids, debug \in BOOLEAN, env \in Environments :
          LET c == [op |-> "deleteEdgeDatabase", token |-> token, id |-> id, debug |-> debug, env |-> env]
          IN /\ call' = c
             /\ requests' = Issued(requests, deleteEdgeDatabaseRequest(c))
    /\ pc' = "awaiting"
    /\ UNCHANGED <<reply, outcome, logged, handle>>

deleteEdgeDatabaseResumed ==
    /\ pc = "awaiting"
    /\ call.op = "deleteEdgeDatabase"
    /\ \E rep \in Replies :
          /\ reply' = rep
          /\ outcome' = deleteEdgeDatabaseSettle(call, rep)
          /\ logged' = deleteEdgeDatabaseLog(call, rep)
    /\ pc' = "done"
    /\ UNCHANGED <<call, requests, handle>>

postQueryEdgeDatabase ==
    /\ pc = "idle"
    /\ \E token \in Tokens, id \in Ids, statements \in StatementLists, debug \in BOOLEAN, env \in Environments :
          LET c == [op |-> "postQueryEdgeDatabase", token |-> token, id |-> id, statements |-> statements, debug |-> debug, env |-> env]
          IN /\ call' = c
             /\ requests' = Issued(requests, postQueryEdgeDatabaseRequest(c))
    /\ pc' = "awaiting"
    /\ UNCHANGED <<reply, outcome, logged, handle>>

postQueryEdgeDatabaseResumed ==
    /\ pc = "awaiting"
    /\ call.op = "postQueryEdgeDatabase"
    /\ \E rep \in Replies :
          /\ reply' = rep
          /\ outcome' = postQueryEdgeDatabaseSettle(call, rep)
          /\ logged' = postQueryEdgeDatabaseLog(call, rep)
    /\ pc' = "done"
    /\ UNCHANGED <<call, requests, handle>>

getEdgeDatabaseById ==
    /\ pc = "idle"
    /\ \E token \in Tokens, id \in Ids, debug \in BOOLEAN, env \in Environments :
          LET c == [op |-> "getEdgeDatabaseById", token |-> token, id |-> id, debug |-> debug, env |-> env]
          IN /\ call' = c
             /\ requests' = Issued(requests, getEdgeDatabaseByIdRequest(c))
    /\ pc' = "awaiting"
    /\ UNCHANGED <<reply, outcome, logged, handle>>

getEdgeDatabaseByIdResumed ==
    /\ pc = "awaiting"
    /\ call.op = "getEdgeDatabaseById"
    /\ \E rep \in Replies :
          /\ reply' = rep
          /\ outcome' = getEdgeDatabaseByIdSettle(call, rep)
          /\ logged' = getEdgeDatabaseByIdLog(call, rep)
    /\ pc' = "done"
    /\ UNCHANGED <<call, requests, handle>>

\* new URL(...) may raise before anything is sent: the catch block then
\* returns the error result and no request is issued
getEdgeDatabases ==
    /\ pc = "idle"
    /\ \E token \in Tokens, params \in DatabaseParams, debug \in BOOLEAN,
          env \in Environments :
          LET c == [op |-> "getEdgeDatabases", token |-> token, params |-> params,
                    debug |-> debug, env |-> env]
          IN /\ call' = c
             /\ IF getEdgeDatabasesUrlThrows(c)
                THEN /\ outcome' = ErrorResult(InvalidUrl, "get databases")
                     /\ logged' = IF debug
                                  THEN << <<"Error getting all EdgeDBs:", InvalidUrl>> >>
                                  ELSE <<>>
                     /\ pc' = "done"
                     /\ UNCHANGED <<requests, reply, handle>>
                ELSE /\ requests' = Issued(requests, getEdgeDatabasesRequest(c))
                     /\ pc' = "awaiting"
                     /\ UNCHANGED <<reply, outcome, logged, handle>>

getEdgeDatabasesResumed ==
    /\ pc = "awaiting"
    /\ call.op = "getEdgeDatabases"
    /\ \E rep \in Replies :
          /\ reply' = rep
          /\ outcome' = getEdgeDatabasesSettle(call, rep)
          /\ logged' = getEdgeDatabasesLog(call, rep)
    /\ pc' = "done"
    /\ UNCHANGED <<call, requests, handle>>

\* The operations of a bucket handle.  Each is an arrow function made by
\* getBucketByName: calling it calls the storage operation it names with the
\* token, name and debug it closed over, and the arguments of this call.
\* The call it starts is a new one, with its own request, reply and outcome.
Applied(f, args) ==
    [op |-> f.op, token |-> f.token, bucketName |-> f.bucketName, debug |-> f.debug]
        @@ args

RequestOf(c) ==
    CASE c.op = "getAllObjects" -> getAllObjectsRequest(c)
      [] c.op = "postObject" -> postObjectRequest(c)
      [] c.op = "getObjectByName" -> getObjectByNameRequest(c)
      [] c.op = "putObject" -> putObjectRequest(c)
      [] c.op = "deleteObject" -> deleteObjectRequest(c)

\* listObjects: () => getAllObjects(token, name, debug)
listObjects ==
    /\ pc = "done"
    /\ handle.held
    /\ LET c == Applied(Get(handle.value, "listObjects"), <<>>)
       IN /\ call' = c
          /\ requests' = Issued(<<>>, RequestOf(c))
    /\ pc' = "awaiting"
    /\ reply' = Pending
    /\ outcome' = Pending
    /\ logged' = <<>>
    /\ UNCHANGED handle

\* uploadObject: (objectKey, file) => postObject(token, name, objectKey, file, debug)
uploadObject ==
    /\ pc = "done"
    /\ handle.held
    /\ \E objectKey \in ObjectKeys, file \in Files :
          LET c == Applied(Get(handle.value, "uploadObject"),
                           [objectKey |-> objectKey, file |-> file])
          IN /\ call' = c
             /\ requests' = Issued(<<>>, RequestOf(c))
    /\ pc' = "awaiting"
    /\ reply' = Pending
    /\ outcome' = Pending
    /\ logged' = <<>>
    /\ UNCHANGED handle

\* getObject: (objectKey) => getObjectByName(token, name, objectKey, debug)
getObject ==
    /\ pc = "done"
    /\ handle.held
    /\ \E objectKey \in ObjectKeys :
          LET c == Applied(Get(handle.value, "getObject"), [objectKey |-> objectKey])
          IN /\ call' = c
             /\ requests' = Issued(<<>>, RequestOf(c))
    /\ pc' = "awaiting"
    /\ reply' = Pending
    /\ outcome' = Pending
    /\ logged' = <<>>
    /\ UNCHANGED handle

\* updateObject: (objectKey, file) => putObject(token, name, objectKey, file, debug)
updateObject ==
    /\ pc = "done"
    /\ handle.held
    /\ \E objectKey \in ObjectKeys, file \in Files :
          LET c == Applied(Get(handle.value, "updateObject"),
                           [objectKey |-> objectKey, file |-> file])
          IN /\ call' = c
             /\ requests' = Issued(<<>>, RequestOf(c))
    /\ pc' = "awaiting"
    /\ reply' = Pending
    /\ outcome' = Pending
    /\ logged' = <<>>
    /\ UNCHANGED handle

\* deleteObject: (objectKey) => deleteObject(token, name, objectKey, debug),
\* the handle's own deleteObject
bucketDeleteObject ==
    /\ pc = "done"
    /\ handle.held
    /\ \E objectKey \in ObjectKeys :
          LET c == Applied(Get(handle.value, "deleteObject"), [objectKey |-> objectKey])
          IN /\ call' = c
             /\ requests' = Issued(<<>>, RequestOf(c))
    /\ pc' = "awaiting"
    /\ reply' = Pending
    /\ outcome' = Pending
    /\ logged' = <<>>
    /\ UNCHANGED handle

Next ==
    \/ getAllBuckets
    \/ getAllBucketsResumed
    \/ createBucket
    \/ createBucketResumed
    \/ patchBucket
    \/ patchBucketResumed
    \/ deleteBucket
    \/ deleteBucketResumed
    \/ getBucketByName
    \/ getBucketByNameResumed
    \/ getAllObjects
    \/ getAllObjectsResumed
    \/ postObject
    \/ postObjectResumed
    \/ getObjectByName
    \/ getObjectByNameResumed
    \/ putObject
    \/ putObjectResumed
    \/ deleteObject
    \/ deleteObjectResumed
    \/ postEdgeDatabase
    \/ postEdgeDatabaseResumed
    \/ deleteEdgeDatabase
    \/ deleteEdgeDatabaseResumed
    \/ postQueryEdgeDatabase
    \/ postQueryEdgeDatabaseResumed
    \/ getEdgeDatabaseById
    \/ getEdgeDatabaseByIdResumed
    \/ getEdgeDatabases
    \/ getEdgeDatabasesResumed
    \/ listObjects
    \/ uploadObject
    \/ getObject
    \/ updateObject
    \/ bucketDeleteObject

Spec == Init /\ [][Next]_vars


(***************************************************************************)
(* The error mapper on its own: handleApiError applied to a list of field  *)
(* names, a payload object and a label.                                    *)
(***************************************************************************)
MaxFields == 2

FieldNames == {"detail", "message", "errors"}

MapperInputs ==
    {[op |-> "handleApiError", fields |-> fields, data |-> Obj(a @@ b @@ c),
      operation |-> operation] :
        fields \in SeqsUpTo(FieldNames, MaxFields),
        a \in Field("detail", Details),
        b \in Field("message", Details),
        c \in Field("errors", Details),
        operation \in {"post database", "get databases"}}

InitErrorMapper ==
    /\ pc = "idle"
    /\ call \in MapperInputs
    /\ requests = <<>>
    /\ reply = Pending
    /\ outcome = Pending
    /\ logged = <<>>
    /\ handle = NoHandle

handleApiErrorApplied ==
    /\ pc = "idle"
    /\ call.op = "handleApiError"
    /\ outcome' = Return(handleApiError(call.fields, call.data, call.operation))
    /\ pc' = "done"
    /\ UNCHANGED <<call, requests, reply, logged, handle>>

NextErrorMapper == handleApiErrorApplied

SpecErrorMapper == InitErrorMapper /\ [][NextErrorMapper]_vars

(***************************************************************************)
(* Properties.                                                             *)
(***************************************************************************)
StorageOps == {"getAllBuckets", "createBucket", "patchBucket", "deleteBucket",
               "getBucketByName", "getAllObjects", "postObject", "getObjectByName",
               "putObject", "deleteObject"}

DatabaseOps == {"postEdgeDatabase", "deleteEdgeDatabase", "postQueryEdgeDatabase",
                "getEdgeDatabaseById", "getEdgeDatabases"}

\* the label each database operation puts on its errors
Label(op) ==
    CASE op = "postEdgeDatabase" -> "post database"
      [] op = "deleteEdgeDatabase" -> "delete database"
      [] op = "postQueryEdgeDatabase" -> "post query"
      [] op = "getEdgeDatabaseById" -> "get database"
      [] op = "getEdgeDatabases" -> "get databases"

\* the field of the payload each database operation takes as its success mark
SuccessField(op) ==
    CASE op \in {"postEdgeDatabase", "deleteEdgeDatabase"} -> "state"
      [] op \in {"postQueryEdgeDatabase", "getEdgeDatabaseById"} -> "data"
      [] op = "getEdgeDatabases" -> "results"

Done == pc = "done"
Parsed == reply.kind = "response" /\ reply.json.kind = "return"
Payload == reply.json.value
Has(v, k) == v.t = "object" /\ k \in DOMAIN v.v

\* an error result { error: { message, operation } } carrying the label
ErrorWith(v, operation) ==
    /\ Has(v, "error")
    /\ Has(v.v["error"], "message")
    /\ Get(v.v["error"], "operation") = Str(operation)

\* C1: a database operation always completes by returning an object, never by
\* raising, whatever the transport delivered (a failure, an unparsable body,
\* null, a primitive, any payload); and when the payload lacks the field the
\* operation takes as its success mark, what it returns is an error carrying
\* the operation's own label.
C1_NeverThrows ==
    (Done /\ call.op \in DatabaseOps) =>
        /\ outcome.kind = "return"
        /\ outcome.value.t = "object"
        /\ (Parsed /\ ~Has(Payload, SuccessField(call.op)))
              => ErrorWith(outcome.value, Label(call.op))

\* postEdgeDatabase got a payload with `state` and without `data`, and returned
\* an error result
C1_Witness ==
    /\ Done
    /\ call.op = "postEdgeDatabase"
    /\ Parsed
    /\ Payload = Obj([state |-> Str("executed")])
    /\ ErrorWith(outcome.value, "post database")

\* C2: when the first element of the `data` array carries a non-empty `error`,
\* postQueryEdgeDatabase returns exactly { error: { message: that error,
\* operation: 'post query' } }, whatever follows in the array and whether or
\* not debug is set.
FirstError ==
    IF Parsed /\ IsArray(Get(Payload, "data")) /\ ~Nullish(At(Get(Payload, "data"), 0))
    THEN Get(At(Get(Payload, "data"), 0), "error")
    ELSE Undefined

C2_EmbeddedError ==
    (Done /\ call.op = "postQueryEdgeDatabase"
          /\ FirstError.t = "string" /\ FirstError.v # "")
        => outcome = Return(Obj([error |-> Obj([message |-> FirstError,
                                               operation |-> Str("post query")])]))

\* debug is set, the first statement failed and the second element is null
C2_Witness ==
    /\ Done
    /\ call.op = "postQueryEdgeDatabase"
    /\ call.debug
    /\ FirstError = Str("syntax error")
    /\ Len(Get(Payload, "data").v) = 2
    /\ At(Get(Payload, "data"), 1) = Null
    /\ Has(outcome.value, "error")

\* C3: handleApiError returns { message, operation } with the label it was
\* given; the message is the value of the last listed field that is present
\* and non-empty (an array joined with ', '), and it is 'Error unknown' exactly
\* when no listed field is present and non-empty, an empty string and an
\* empty array counting as empty.
NonEmpty(v) == ~Nullish(v) /\ v # Str("") /\ v # Arr(<<>>)

Matching(fields, data) == {i \in DOMAIN fields : NonEmpty(Get(data, fields[i]))}

LastMatching(fields, data) ==
    LET i == CHOOSE j \in Matching(fields, data) :
                 \A k \in Matching(fields, data) : k <= j
        v == Get(data, fields[i])
    IN IF IsArray(v) THEN Str(Join(v, ", ")) ELSE v

C3_LastNonEmptyField ==
    (Done /\ call.op = "handleApiError") =>
        /\ outcome.kind = "return"
        /\ Get(outcome.value, "operation") = Str(call.operation)
        /\ Get(outcome.value, "message") =
              (IF Matching(call.fields, call.data) = {}
               THEN Str("Error unknown")
               ELSE LastMatching(call.fields, call.data))
        /\ (Get(outcome.value, "message") = Str("Error unknown"))
              <=> (Matching(call.fields, call.data) = {})

\* C4: on success the record returned by postEdgeDatabase and
\* getEdgeDatabaseById, and every record of the list returned by
\* getEdgeDatabases, carries client_id as clientId, created_at as createdAt,
\* deleted_at as deletedAt, is_active as isActive, updated_at as updatedAt, and
\* id, name and status under their own names.
Renamed(out, record) ==
    /\ Get(out, "clientId") = Get(record, "client_id")
    /\ Get(out, "createdAt") = Get(record, "created_at")
    /\ Get(out, "deletedAt") = Get(record, "deleted_at")
    /\ Get(out, "isActive") = Get(record, "is_active")
    /\ Get(out, "updatedAt") = Get(record, "updated_at")
    /\ Get(out, "id") = Get(record, "id")
    /\ Get(out, "name") = Get(record, "name")
    /\ Get(out, "status") = Get(record, "status")

Returned == outcome.kind = "return" /\ outcome.value.t = "object"

C4_RecordsRenamed ==
    (Done /\ Parsed /\ Returned /\ ~Has(outcome.value, "error")) =>
        /\ (call.op \in {"postEdgeDatabase", "getEdgeDatabaseById"}
               /\ Get(Payload, "data") \in Records)
              => Renamed(Get(outcome.value, "data"), Get(Payload, "data"))
        /\ call.op = "getEdgeDatabases" =>
              /\ IsArray(Get(outcome.value, "results"))
              /\ Len(Get(outcome.value, "results").v) = Len(Get(Payload, "results").v)
              /\ \A i \in DOMAIN Get(Payload, "results").v :
                    Renamed(Get(outcome.value, "results").v[i],
                            Get(Payload, "results").v[i])

\* what each operation settles to for a call and a reply
SettleOf(c, rep) ==
    CASE c.op = "getAllBuckets" -> getAllBucketsSettle(c, rep)
      [] c.op = "createBucket" -> createBucketSettle(c, rep)
      [] c.op = "patchBucket" -> patchBucketSettle(c, rep)
      [] c.op = "deleteBucket" -> deleteBucketSettle(c, rep)
      [] c.op = "getBucketByName" -> getBucketByNameSettle(c, rep)
      [] c.op = "getAllObjects" -> getAllObjectsSettle(c, rep)
      [] c.op = "postObject" -> postObjectSettle(c, rep)
      [] c.op = "getObjectByName" -> getObjectByNameSettle(c, rep)
      [] c.op = "putObject" -> putObjectSettle(c, rep)
      [] c.op = "deleteObject" -> deleteObjectSettle(c, rep)
      [] c.op = "postEdgeDatabase" -> postEdgeDatabaseSettle(c, rep)
      [] c.op = "deleteEdgeDatabase" -> deleteEdgeDatabaseSettle(c, rep)
      [] c.op = "postQueryEdgeDatabase" -> postQueryEdgeDatabaseSettle(c, rep)
      [] c.op = "getEdgeDatabaseById" -> getEdgeDatabaseByIdSettle(c, rep)
      [] c.op = "getEdgeDatabases" -> getEdgeDatabasesSettle(c, rep)

\* the debug flag apart, the value a call gives back: a bound operation of a
\* bucket handle keeps the flag it was made with, which is no part of what
\* the caller can observe of the value
Observable(completion) ==
    IF completion.kind = "return" /\ completion.value.t = "object"
    THEN [completion EXCEPT !.value.v =
            [k \in DOMAIN @ |-> IF @[k].t = "function"
                                THEN [@[k] EXCEPT !.debug = FALSE] ELSE @[k]]]
    ELSE completion

\* C5: what a call returns (or raises) for given arguments and a given reply
\* is the same with debug set as with debug unset.
C5_DebugNonInterference ==
    (Done /\ reply # Pending) =>
        Observable(outcome) = Observable(SettleOf([call EXCEPT !.debug = FALSE], reply))


HeadersOf(req) == req.options["headers"]

\* the operations that build their headers with buildHeaders
ViaBuildHeaders == {"postEdgeDatabase", "deleteEdgeDatabase", "postQueryEdgeDatabase"}

\* C6 as stated: whatever the credential, every request issued carries an
\* Authorization header equal to 'Token ' followed by the credential.
C6_TokenHeaderAlways ==
    \A i \in DOMAIN requests :
        /\ "Authorization" \in DOMAIN HeadersOf(requests[i])
        /\ HeadersOf(requests[i])["Authorization"] = "Token " \o call.token.v

\* C6 as amended: every request carries Authorization: 'Token ' followed by the
\* credential, unchanged, except that postEdgeDatabase, deleteEdgeDatabase and
\* postQueryEdgeDatabase, which build their headers with buildHeaders, send no
\* Authorization header at all when the credential is the empty string.
C6_TokenHeader ==
    \A i \in DOMAIN requests :
        IF call.token.v = "" /\ call.op \in ViaBuildHeaders
        THEN "Authorization" \notin DOMAIN HeadersOf(requests[i])
        ELSE /\ "Authorization" \in DOMAIN HeadersOf(requests[i])
             /\ HeadersOf(requests[i])["Authorization"] = "Token " \o call.token.v

\* postEdgeDatabase was called with a credential and its request is out
C6_Witness ==
    /\ pc = "awaiting"
    /\ call.op = "postEdgeDatabase"
    /\ call.token = Str("s3cr3t")
    /\ HeadersOf(requests[1])["Authorization"] = "Token s3cr3t"

\* s holds the query parameter kv ("key=value"), delimited as in a query string
HasParam(s, kv) ==
    \E i \in 2..(Len(s) - Len(kv) + 1) :
        /\ SubSeq(s, i, i + Len(kv) - 1) = kv
        /\ SubSeq(s, i - 1, i - 1) \in {"?", "&"}
        /\ (i + Len(kv) - 1 = Len(s) \/ SubSeq(s, i + Len(kv), i + Len(kv)) = "&")

HasQuery(s) == \E i \in 1..Len(s) : SubSeq(s, i, i) = "?"

\* C7 as stated: a list call made with no options (getAllBuckets with options
\* undefined, getEdgeDatabases with params undefined) issues a request whose
\* query has page=1 and page_size=10, and getAllBuckets keeps the default for
\* the one of the two that a partial options object leaves out.
C7_DefaultsEverywhere ==
    \A i \in DOMAIN requests :
        /\ (call.op = "getAllBuckets" /\ Get(call.options, "size") = Undefined)
              => HasParam(requests[i].url, "page_size=10")
        /\ (call.op = "getAllBuckets" /\ Get(call.options, "page") = Undefined)
              => HasParam(requests[i].url, "page=1")
        /\ (call.op = "getEdgeDatabases" /\ call.params = Undefined)
              => /\ HasParam(requests[i].url, "page_size=10")
                 /\ HasParam(requests[i].url, "page=1")

\* C7 as amended: getAllBuckets with no options issues page_size=10 and page=1,
\* and keeps the default for the one of the two that a partial options object
\* leaves out; the request getEdgeDatabases issues with no params goes to the
\* base URL with no query at all (no page, no page_size).
C7_Defaults ==
    \A i \in DOMAIN requests :
        /\ call.op = "getAllBuckets" =>
              /\ HasParam(requests[i].url, "page_size=" \o
                    (IF Get(call.options, "size") = Undefined THEN "10"
                     ELSE ToString(Get(call.options, "size").v)))
              /\ HasParam(requests[i].url, "page=" \o
                    (IF Get(call.options, "page") = Undefined THEN "1"
                     ELSE ToString(Get(call.options, "page").v)))
        /\ (call.op = "getEdgeDatabases" /\ call.params = Undefined)
              => /\ ~HasQuery(requests[i].url)
                 /\ requests[i].url = getBaseUrl(call.env)

\* getAllBuckets was called with a size and no page, and asked for page 1
C7_Witness ==
    /\ pc = "awaiting"
    /\ call.op = "getAllBuckets"
    /\ call.options = Obj("size" :> Num(25))
    /\ requests[1].url = BASE_URL \o "?page_size=25&page=1"

\* C8: what a database operation returns has either an `error` of shape
\* { message, operation } or success fields (`data`, or `results` for the
\* list), never both and never neither.
C8_TaggedUnion ==
    (Done /\ call.op \in DatabaseOps) =>
        /\ Returned
        /\ Has(outcome.value, "error") =>
              /\ Has(outcome.value.v["error"], "message")
              /\ Has(outcome.value.v["error"], "operation")
        /\ Has(outcome.value, "error")
              # (Has(outcome.value, "data") \/ Has(outcome.value, "results"))

\* C9: every request carries an Accept header, and carries a Content-Type
\* header exactly when it has a body: application/json for the create, update
\* and query bodies, application/octet-stream for an object upload or replace.
C9_AcceptAndContentType ==
    \A i \in DOMAIN requests :
        LET options == requests[i].options
            headers == HeadersOf(requests[i])
        IN /\ "Accept" \in DOMAIN headers
           /\ ("Content-Type" \in DOMAIN headers) <=> ("body" \in DOMAIN options)
           /\ "body" \in DOMAIN options =>
                 headers["Content-Type"] =
                    (IF call.op \in {"postObject", "putObject"}
                     THEN "application/octet-stream" ELSE "application/json")

\* C10: no call issues more than one request; when the request fails, a storage
\* operation rejects with the failure it received and a database operation
\* returns an error result.
C10_NoRetry ==
    /\ Len(requests) <= 1
    /\ (Done /\ reply # Pending /\ reply.kind = "reject") =>
          /\ Len(requests) = 1
          /\ call.op \in StorageOps => outcome = Throw(reply.error)
          /\ call.op \in DatabaseOps =>
                outcome = ErrorResult(reply.error, Label(call.op))

\* getAllBuckets issued its one request, the transport rejected, and the call
\* rejected with that failure
C10_Witness ==
    /\ Done
    /\ call.op = "getAllBuckets"
    /\ reply = Rejected(NetworkError)
    /\ Len(requests) = 1
    /\ outcome = Throw(NetworkError)

\* C11: postQueryEdgeDatabase returns a success result { state, data } exactly
\* when the response `data` is an array whose first element carries no
\* `error`; an empty array has no first element to carry one, and a value
\* that is no array is never a success.
FirstCarriesError(data) == ~Nullish(At(data, 0)) /\ Truthy(Get(At(data, 0), "error"))

C11_QuerySuccess ==
    (Done /\ call.op = "postQueryEdgeDatabase" /\ Parsed) =>
        ((Returned /\ ~Has(outcome.value, "error") /\ Has(outcome.value, "data"))
            <=> (IsArray(Get(Payload, "data")) /\ ~FirstCarriesError(Get(Payload, "data"))))

\* the fixed origin and path of each environment
EnvironmentUrl(env) ==
    CASE env \in {Undefined, Str("production")} -> "https://api.azion.com/v4/storage/buckets"
      [] env = Str("development") -> "/v4/storage/buckets"
      [] env = Str("staging") -> "https://stage-api.azion.com/v4/storage/buckets"

\* the path segments each database operation appends to the base URL
ResourcePath(c) ==
    CASE c.op \in {"deleteEdgeDatabase", "getEdgeDatabaseById"} -> "/" \o ToString(c.id.v)
      [] c.op = "postQueryEdgeDatabase" -> "/" \o ToString(c.id.v) \o "/query"
      [] OTHER -> ""

\* C12: in each of the three environments, and in production when none is
\* given, a database operation that has been called has issued its one
\* request, to that environment's base URL followed by the path segments of
\* the resource and, for the list, by the parameters supplied.
C12_EnvironmentUrl ==
    (pc \in {"awaiting", "done"} /\ call.op \in DatabaseOps) =>
        /\ Len(requests) = 1
        /\ StartsWith(requests[1].url, EnvironmentUrl(call.env) \o ResourcePath(call))
        /\ call.op # "getEdgeDatabases" =>
              requests[1].url = EnvironmentUrl(call.env) \o ResourcePath(call)
        /\ (call.op = "getEdgeDatabases" /\ call.params # Undefined) =>
              \A k \in DOMAIN call.params.v :
                  call.params.v[k] # Undefined =>
                      HasParam(requests[1].url, k \o "=" \o ToStr(call.params.v[k]))

\* C14: deleteBucket and deleteObject resolve with no value for every response
\* the transport delivers, whatever its status and whether or not its body can
\* be read, and reject, with the failure received, only when the transport
\* call itself rejects.
C14_DeleteIgnoresResponse ==
    (Done /\ call.op \in {"deleteBucket", "deleteObject"}) =>
        /\ reply.kind = "response" => outcome = Return(Undefined)
        /\ reply.kind = "reject" => outcome = Throw(reply.error)
        /\ outcome.kind = "throw" => reply.kind = "reject"

\* deleteBucket got a 404 saying the bucket was not found, and resolved
C14_Witness ==
    /\ Done
    /\ call.op = "deleteBucket"
    /\ reply.kind = "response"
    /\ reply.status = 404
    /\ reply.json = Return(Obj([detail |-> Str("Not found")]))
    /\ outcome = Return(Undefined)

\* the storage operation each operation of the handle stands for
BoundOperations ==
    [listObjects |-> "getAllObjects", uploadObject |-> "postObject",
     getObject |-> "getObjectByName", updateObject |-> "putObject",
     deleteObject |-> "deleteObject"]

\* the arguments the storage operation gets when the caller calls it itself
\* with what getBucketByName was called with
OnBucket(op, from) ==
    [op |-> op, token |-> from.token, bucketName |-> from.name, debug |-> from.debug]
OnObject(op, from, objectKey) ==
    OnBucket(op, from) @@ [objectKey |-> objectKey]
WithFile(op, from, objectKey, file) ==
    OnObject(op, from, objectKey) @@ [file |-> file]

HandleReturned ==
    (Done /\ call.op = "getBucketByName" /\ Parsed /\ Get(Payload, "data").t = "object") =>
        /\ outcome.kind = "return"
        /\ handle = Held(call, outcome.value)
        /\ \A k \in DOMAIN BoundOperations :
              /\ Get(outcome.value, k).t = "function"
              /\ Get(outcome.value, k).op = BoundOperations[k]
        /\ \A k \in DOMAIN Get(Payload, "data").v \ DOMAIN BoundOperations :
              Get(outcome.value, k) = Get(Get(Payload, "data"), k)

AsStandalone ==
    /\ listObjects =>
          /\ call' = OnBucket("getAllObjects", handle.from)
          /\ requests' = <<getAllObjectsRequest(OnBucket("getAllObjects", handle.from))>>
    /\ uploadObject =>
          \E objectKey \in ObjectKeys, file \in Files :
             /\ call' = WithFile("postObject", handle.from, objectKey, file)
             /\ requests' = <<postObjectRequest(WithFile("postObject", handle.from, objectKey, file))>>
    /\ getObject =>
          \E objectKey \in ObjectKeys :
             /\ call' = OnObject("getObjectByName", handle.from, objectKey)
             /\ requests' = <<getObjectByNameRequest(OnObject("getObjectByName", handle.from, objectKey))>>
    /\ updateObject =>
          \E objectKey \in ObjectKeys, file \in Files :
             /\ call' = WithFile("putObject", handle.from, objectKey, file)
             /\ requests' = <<putObjectRequest(WithFile("putObject", handle.from, objectKey, file))>>
    /\ bucketDeleteObject =>
          \E objectKey \in ObjectKeys :
             /\ call' = OnObject("deleteObject", handle.from, objectKey)
             /\ requests' = <<deleteObjectRequest(OnObject("deleteObject", handle.from, objectKey))>>

\* C13: getBucketByName returns the bucket handle whenever the response
\* carries a data record: the record's fields and the five operations
\* listObjects, uploadObject, getObject, updateObject and deleteObject.  Every
\* later call of one of the five, in any order and any number of times, starts
\* the call the storage operation of that name would be given by a caller
\* passing the token, the bucket name and the debug flag getBucketByName was
\* called with, and issues exactly that operation's one request; a handle,
\* once held, is never changed by a call made through it.
C13_BoundOperations ==
    /\ []HandleReturned
    /\ [][AsStandalone /\ (handle.held => handle' = handle)]_vars

\* a debugging caller has uploaded an object through the handle, the upload
\* has failed to parse, was logged, and the handle can be used again
C13_Witness ==
    /\ Done
    /\ handle.held
    /\ handle.from = [op |-> "getBucketByName", token |-> Str("s3cr3t"),
                      name |-> Str("assets"), debug |-> TRUE]
    /\ call = WithFile("postObject", handle.from, Str("logo"), Str("bytes"))
    /\ requests = <<postObjectRequest(call)>>
    /\ reply.kind = "response" /\ reply.status = 502
    /\ outcome.kind = "throw"
    /\ Len(logged) = 1
    /\ ENABLED getObject
====
